---- MODULE Spec2Model ----
(***************************************************************************)
(* File-uploader: folder tree, file records, share links and storage       *)
(* paths.  The database tables (folders, files, shared_folders) and the    *)
(* object-storage bucket are the state; every route handler is an action.  *)
(***************************************************************************)
EXTENDS Integers, Sequences, FiniteSets, Bags, TLC

VARIABLES
    folders,       \* table folders: id -> [name, userId, parentId]
    files,         \* table files: id -> [filename, originalName, storagePath,
                   \*                     isPublic, userId, folderId]
    shares,        \* table shared_folders: token -> [folderId, userId,
                   \*                                 createdAt, expiresAt]
    objects,       \* storage paths of the objects held by the bucket
    disk,          \* paths of the files in the local uploads/ directory
    now,           \* the clock, in milliseconds
    nextFolderId,  \* the id the next folder row gets
    nextFileId,    \* the id the next file row gets
    nextToken,     \* the token the next share link gets
    issued,        \* token -> [at, duration] of every link ever issued
    uploads,       \* bag of the storage paths generated, per upload request
    reqs,          \* folder writes between their pre-check and their write
    resp           \* the reply to the last request

vars == <<folders, files, shares, objects, disk, now, nextFolderId, nextFileId,
          nextToken, issued, uploads, reqs, resp>>

dbVars == <<folders, files, shares>>

(* ------------------------------ bounds -------------------------------- *)
MaxFolders == 2
MaxFiles == 1
MaxUploads == 2
MaxShares == 2
MaxLinks == 1
MaxNow == 120000
MaxFileNow == 60000
MaxReqs == 2
MaxChain == 3
MaxDurLen == 2

(* ----------------------------- constants ------------------------------ *)
NULL == 0
NameMaxLen == 100

Users == {"u1", "u2"}
FolderIdSpace == 1..MaxFolders
FileIdSpace == 1..(MaxUploads + 1)
TokenSpace == 1..(MaxShares + 1)

(* Request inputs: raw folder names as typed into the form. *)
RawNames == {<<" ", "a">>, <<"b">>, <<"*">>}

(* ------------------------- validation helpers ------------------------- *)
RECURSIVE TrimLeft(_)
TrimLeft(s) ==
    IF s = <<>> THEN s
    ELSE IF Head(s) = " " THEN TrimLeft(Tail(s)) ELSE s

RECURSIVE TrimRight(_)
TrimRight(s) ==
    IF s = <<>> THEN s
    ELSE IF s[Len(s)] = " " THEN TrimRight(SubSeq(s, 1, Len(s) - 1)) ELSE s

Trim(s) == TrimRight(TrimLeft(s))

EscapeChar(c) ==
    CASE c = "<" -> <<"&", "l", "t", ";">>
      [] c = ">" -> <<"&", "g", "t", ";">>
      [] c = "&" -> <<"&", "a", "m", "p", ";">>
      [] c = "/" -> <<"&", "#", "x", "2", "F", ";">>
      [] OTHER -> <<c>>

RECURSIVE Escape(_)
Escape(s) == IF s = <<>> THEN <<>> ELSE EscapeChar(Head(s)) \o Escape(Tail(s))

NameChars == {"a", "b", " ", "-", "_", "."}

(* body('name').trim().escape().isLength(1..100).matches(charset):        *)
(* the sanitized value replaces the request field.                        *)
SanitizeName(raw) == Escape(Trim(raw))

validateFolder(raw) ==
    LET s == SanitizeName(raw)
    IN  /\ Len(s) >= 1
        /\ Len(s) <= NameMaxLen
        /\ \A i \in 1..Len(s) : s[i] \in NameChars

(* ----------------------------- data layer ----------------------------- *)
FolderIds == DOMAIN folders
FileIds == DOMAIN files

Children(id) == {c \in FolderIds : folders[c].parentId = id}
FilesIn(id) == {f \in FileIds : files[f].folderId = id}

(* prisma.folder.findFirst({where: {id, userId}}) *)
FindOwnedFolder(id, u) ==
    IF id \in FolderIds /\ folders[id].userId = u THEN id ELSE NULL

(* Mutant: the sibling lookup forgets the parent and looks at the roots. *)
FindSibling_RootOnly(name, u, pid, notId) ==
    {c \in FolderIds : /\ folders[c].name = name
                       /\ folders[c].userId = u
                       /\ folders[c].parentId = NULL
                       /\ c # notId}

(* Mutant: the lookup does not leave out the folder being updated. *)
FindSibling_IncludesSelf(name, u, pid, notId) ==
    {c \in FolderIds : /\ folders[c].name = name
                       /\ folders[c].userId = u
                       /\ folders[c].parentId = pid}

(* prisma.folder.findFirst({where: {name, userId, parentId, id: {not}}}) *)
FindSibling(name, u, pid, notId) ==
    {c \in FolderIds : /\ folders[c].name = name
                       /\ folders[c].userId = u
                       /\ folders[c].parentId = pid
                       /\ c # notId}

(* folders_parentId_fkey: a non-null parentId must reference a row. *)
ParentFkOk(pid) == pid = NULL \/ pid \in FolderIds

(* ON DELETE CASCADE along folders.parentId: the rows removed with id. *)
RECURSIVE CascadeSet(_, _)
CascadeSet(S, fuel) ==
    LET more == S \cup {c \in FolderIds : folders[c].parentId \in S}
    IN  IF more = S \/ fuel = 0 THEN S ELSE CascadeSet(more, fuel - 1)

(* Mutant: the share links of a removed folder stay in the table. *)
CascadeShares_None(gone) == shares

(* shared_folders_folderId_fkey ON DELETE CASCADE: the links that remain  *)
(* when the folders in gone are removed.                                  *)
CascadeShares(gone) ==
    [t \in {x \in DOMAIN shares : shares[x].folderId \notin gone} |-> shares[t]]

(* prisma.folder.delete with the foreign keys of the schema:              *)
(* child folders and shared_folders cascade, files.folderId is set null.  *)
DbDeleteFolder(id) ==
    LET gone == CascadeSet({id}, Cardinality(FolderIds))
    IN  /\ folders' = [i \in FolderIds \ gone |-> folders[i]]
        /\ files' = [f \in FileIds |->
                        IF files[f].folderId \in gone
                        THEN [files[f] EXCEPT !.folderId = NULL]
                        ELSE files[f]]
        /\ shares' = CascadeShares(gone)

Reply(op, result, u, id) ==
    [op |-> op, result |-> result, requester |-> u, target |-> id]

(* --------------------------- folder handlers -------------------------- *)
(* POST /folders *)
CreateFolder(u, raw, pid) ==
    /\ UNCHANGED <<files, shares, objects, disk, now, nextFileId, nextToken, issued,
                   uploads, reqs>>
    /\ IF ~validateFolder(raw)
       THEN /\ resp' = Reply("createFolder", "ValidationError", u, NULL)
            /\ UNCHANGED <<folders, nextFolderId>>
       ELSE LET name == Trim(SanitizeName(raw))
            IN  IF FindSibling(name, u, pid, NULL) # {}
                THEN /\ resp' = Reply("createFolder", "Conflict", u, NULL)
                     /\ UNCHANGED <<folders, nextFolderId>>
                ELSE IF ~ParentFkOk(pid)
                THEN /\ resp' = Reply("createFolder", "Error", u, NULL)
                     /\ UNCHANGED <<folders, nextFolderId>>
                ELSE /\ folders' = folders @@ (nextFolderId :>
                            [name |-> name, userId |-> u, parentId |-> pid])
                     /\ nextFolderId' = nextFolderId + 1
                     /\ resp' = Reply("createFolder", "Ok", u, nextFolderId)

(* PUT /folders/:id as a function of the folder table found in the       *)
(* current state: the result it replies and the table it leaves.          *)
UpdateOutcome(u, id, raw, pid) ==
    IF ~validateFolder(raw)
    THEN [result |-> "ValidationError", folders |-> folders]
    ELSE LET name == Trim(SanitizeName(raw))
         IN  IF FindOwnedFolder(id, u) = NULL
             THEN [result |-> "NotFound", folders |-> folders]
             ELSE IF FindSibling(name, u, pid, id) # {}
             THEN [result |-> "Conflict", folders |-> folders]
             ELSE IF ~ParentFkOk(pid)
             THEN [result |-> "Error", folders |-> folders]
             ELSE [result |-> "Ok",
                   folders |-> [folders EXCEPT ![id].name = name,
                                               ![id].parentId = pid]]

(* f is a or lies below a in the folder table given. *)
RECURSIVE InsideOf(_, _, _, _)
InsideOf(table, f, a, fuel) ==
    IF f = a THEN TRUE
    ELSE IF fuel = 0 \/ f \notin DOMAIN table THEN FALSE
    ELSE IF table[f].parentId = NULL THEN FALSE
    ELSE InsideOf(table, table[f].parentId, a, fuel - 1)

(* History kept with each subfolder request in progress: whether the      *)
(* folder it asks for has been inside the shared root's subtree at some   *)
(* moment since the request began.  It is read by no handler.             *)
ObserveWalks(rs, table) ==
    {IF q.kind = "walk"
     THEN [q EXCEPT !.inside = @ \/ InsideOf(table, q.folder, q.root,
                                             Cardinality(DOMAIN table))]
     ELSE q : q \in rs}

(* The reply of the update handler, with whether the row it wrote       *)
(* differs from the row it found.                                         *)
UpdateReply(result, u, id, changed) ==
    [op |-> "updateFolder", result |-> result, requester |-> u, target |-> id,
     wrote |-> IF result # "Ok" THEN "nothing"
               ELSE IF changed THEN "changed" ELSE "same"]

(* PUT /folders/:id *)
UpdateFolder(u, id, raw, pid) ==
    \E out \in {UpdateOutcome(u, id, raw, pid)} :
        /\ UNCHANGED <<files, shares, objects, disk, now, nextFolderId, nextFileId,
                       nextToken, issued, uploads>>
        /\ folders' = out.folders
        /\ reqs' = ObserveWalks(reqs, out.folders)
        /\ resp' = UpdateReply(out.result, u, id, out.folders # folders)

(* Mutant: the emptiness guard forgets the files. *)
HasContents_ChildrenOnly(id) == Children(id) # {}

(* The emptiness guard of DELETE /folders/:id *)
HasContents(id) == Children(id) # {} \/ FilesIn(id) # {}

(* DELETE /folders/:id *)
DeleteFolder(u, id) ==
    /\ UNCHANGED <<objects, disk, now, nextFolderId, nextFileId, nextToken, issued,
                   uploads, reqs>>
    /\ IF FindOwnedFolder(id, u) = NULL
       THEN /\ resp' = Reply("deleteFolder", "NotFound", u, id)
            /\ UNCHANGED dbVars
       ELSE IF HasContents(id)
       THEN /\ resp' = Reply("deleteFolder", "NotEmpty", u, id)
            /\ UNCHANGED dbVars
       ELSE /\ DbDeleteFolder(id)
            /\ resp' = Reply("deleteFolder", "Ok", u, id)

(* ------------------ folder handlers, await by await ------------------- *)
(* Each handler awaits its pre-check query and then its write; other      *)
(* requests run between the two.  reqs holds the requests that passed     *)
(* their pre-check and have not written yet.                              *)
FreeRid == CHOOSE r \in 1..(Cardinality(reqs) + 1) : \A q \in reqs : q.rid # r

PendingCreates == {q \in reqs : q.kind = "create"}

(* POST /folders up to and including the findFirst pre-check *)
BeginCreateFolder(u, raw, pid) ==
    /\ UNCHANGED <<folders, files, shares, objects, disk, now, nextFolderId, nextFileId,
                   nextToken, issued, uploads>>
    /\ IF ~validateFolder(raw)
       THEN /\ resp' = Reply("createFolder", "ValidationError", u, NULL)
            /\ UNCHANGED reqs
       ELSE LET name == Trim(SanitizeName(raw))
            IN  IF FindSibling(name, u, pid, NULL) # {}
                THEN /\ resp' = Reply("createFolder", "Conflict", u, NULL)
                     /\ UNCHANGED reqs
                ELSE /\ reqs' = reqs \cup {[rid |-> FreeRid, kind |-> "create",
                                            userId |-> u, id |-> NULL,
                                            name |-> name, parentId |-> pid]}
                     /\ resp' = Reply("createFolder", "Pending", u, NULL)

(* POST /folders from prisma.folder.create on *)
CommitCreateFolder(q) ==
    /\ q.kind = "create"
    /\ reqs' = reqs \ {q}
    /\ UNCHANGED <<files, shares, objects, disk, now, nextFileId, nextToken, issued,
                   uploads>>
    /\ IF ~ParentFkOk(q.parentId)
       THEN /\ resp' = Reply("createFolder", "Error", q.userId, NULL)
            /\ UNCHANGED <<folders, nextFolderId>>
       ELSE /\ folders' = folders @@ (nextFolderId :>
                   [name |-> q.name, userId |-> q.userId, parentId |-> q.parentId])
            /\ nextFolderId' = nextFolderId + 1
            /\ resp' = Reply("createFolder", "Ok", q.userId, nextFolderId)

(* PUT /folders/:id up to and including the second findFirst *)
BeginUpdateFolder(u, id, raw, pid) ==
    /\ UNCHANGED <<folders, files, shares, objects, disk, now, nextFolderId, nextFileId,
                   nextToken, issued, uploads>>
    /\ IF ~validateFolder(raw)
       THEN /\ resp' = Reply("updateFolder", "ValidationError", u, id)
            /\ UNCHANGED reqs
       ELSE LET name == Trim(SanitizeName(raw))
            IN  IF FindOwnedFolder(id, u) = NULL
                THEN /\ resp' = Reply("updateFolder", "NotFound", u, id)
                     /\ UNCHANGED reqs
                ELSE IF FindSibling(name, u, pid, id) # {}
                THEN /\ resp' = Reply("updateFolder", "Conflict", u, id)
                     /\ UNCHANGED reqs
                ELSE /\ reqs' = reqs \cup {[rid |-> FreeRid, kind |-> "update",
                                            userId |-> u, id |-> id,
                                            name |-> name, parentId |-> pid]}
                     /\ resp' = Reply("updateFolder", "Pending", u, id)

(* PUT /folders/:id from prisma.folder.update on *)
CommitUpdateFolder(q) ==
    /\ q.kind = "update"
    /\ reqs' = reqs \ {q}
    /\ UNCHANGED <<files, shares, objects, disk, now, nextFolderId, nextFileId,
                   nextToken, issued, uploads>>
    /\ IF q.id \notin FolderIds \/ ~ParentFkOk(q.parentId)
       THEN /\ resp' = Reply("updateFolder", "Error", q.userId, q.id)
            /\ UNCHANGED folders
       ELSE /\ folders' = [folders EXCEPT ![q.id].name = q.name,
                                          ![q.id].parentId = q.parentId]
            /\ resp' = Reply("updateFolder", "Ok", q.userId, q.id)

(* DELETE /folders/:id up to and including the findFirst that loads the   *)
(* folder with its children and files, and the emptiness guard.           *)
BeginDeleteFolder(u, id) ==
    /\ UNCHANGED <<folders, files, shares, objects, disk, now, nextFolderId, nextFileId,
                   nextToken, issued, uploads>>
    /\ IF FindOwnedFolder(id, u) = NULL
       THEN /\ resp' = Reply("deleteFolder", "NotFound", u, id)
            /\ UNCHANGED reqs
       ELSE IF HasContents(id)
       THEN /\ resp' = Reply("deleteFolder", "NotEmpty", u, id)
            /\ UNCHANGED reqs
       ELSE /\ reqs' = reqs \cup {[rid |-> FreeRid, kind |-> "delete",
                                   userId |-> u, id |-> id,
                                   name |-> <<>>, parentId |-> NULL]}
            /\ resp' = Reply("deleteFolder", "Pending", u, id)

(* DELETE /folders/:id from prisma.folder.delete on *)
CommitDeleteFolder(q) ==
    /\ q.kind = "delete"
    /\ reqs' = reqs \ {q}
    /\ UNCHANGED <<objects, disk, now, nextFolderId, nextFileId, nextToken, issued,
                   uploads>>
    /\ IF q.id \notin FolderIds
       THEN /\ resp' = Reply("deleteFolder", "Error", q.userId, q.id)
            /\ UNCHANGED dbVars
       ELSE /\ DbDeleteFolder(q.id)
            /\ resp' = Reply("deleteFolder", "Ok", q.userId, q.id)

(* ---------------------------- storage adapter ------------------------- *)
SafeChars == {"a", "b", "t", ".", "-"}

(* filename.replace(/[^a-zA-Z0-9.-]/g, '_') *)
RECURSIVE Sanitize(_)
Sanitize(s) ==
    IF s = <<>> THEN <<>>
    ELSE <<IF Head(s) \in SafeChars THEN Head(s) ELSE "_">> \o Sanitize(Tail(s))

(* Mutant: the path is always built under the folders segment. *)
generateStoragePath_AlwaysFolders(userId, folderId, filename, clock) ==
    [owner |-> userId,
     kind |-> "folders",
     folder |-> folderId,
     stamp |-> clock,
     name |-> Sanitize(filename)]

(* `${userId}/folders/${folderId}/${timestamp}-${sanitized}` or            *)
(* `${userId}/root/${timestamp}-${sanitized}`, kept as its segments.       *)
generateStoragePath(userId, folderId, filename, clock) ==
    [owner |-> userId,
     kind |-> IF folderId # NULL THEN "folders" ELSE "root",
     folder |-> folderId,
     stamp |-> clock,
     name |-> Sanitize(filename)]

(* A path column that holds null: File.storagePath of a record of the     *)
(* disk-storage version, File.path of a record written to the bucket.     *)
NoPath == [kind |-> "none"]

(* storagePath.split('/').pop() *)
LastSegment(path) == <<path.stamp, path.name>>

(* ---------------------------- file handlers --------------------------- *)
(* Requests rejected by multer or by validateFileUpload never reach the   *)
(* handler body and change nothing; the inputs below are the accepted     *)
(* ones.  Every record written by POST /files/upload has a storagePath    *)
(* and no local path; the records of the disk-storage upload route have   *)
(* a local path and no storagePath.                                       *)
(* Mutant: the lookup forgets the isPublic alternative. *)
FindVisibleFile_OwnerOnly(id, u) ==
    IF id \in FileIds /\ files[id].userId = u THEN id ELSE NULL

(* Mutant: the lookup finds every file that exists. *)
FindVisibleFile_AnyExisting(id, u) ==
    IF id \in FileIds THEN id ELSE NULL

(* prisma.file.findFirst({where: {id, OR: [{userId}, {isPublic: true}]}}) *)
FindVisibleFile(id, u) ==
    IF id \in FileIds /\ (files[id].userId = u \/ files[id].isPublic)
    THEN id ELSE NULL

(* Mutant: the handler ignores uploadError and goes on to the insert. *)
UploadAborted_Never(putOk) == FALSE

(* if (uploadError) { ...; return res.redirect('/files/upload'); } *)
UploadAborted(putOk) == ~putOk

(* Mutant: the upload handler takes the request's folder id as it is. *)
UploadFolder_Unchecked(fid, u) == fid

(* let validatedFolderId = null; set to folderId only when the folder is  *)
(* found with userId = req.user.id.                                       *)
UploadFolder(fid, u) ==
    IF fid # NULL /\ FindOwnedFolder(fid, u) # NULL THEN fid ELSE NULL

(* files_folderId_fkey: a non-null folderId must reference a row. *)
FolderFkOk(fid) == fid = NULL \/ fid \in FolderIds

(* Mutant: the object is kept only when the record was written too. *)
ObjectsAfterUpload_RollsBack(storagePath, putOk, dbOk) ==
    IF putOk /\ dbOk THEN objects \cup {storagePath} ELSE objects

(* The bucket after the handler: uploadFile stored the object or did not, *)
(* and nothing in the handler removes it when the insert throws.          *)
ObjectsAfterUpload(storagePath, putOk, dbOk) ==
    IF putOk THEN objects \cup {storagePath} ELSE objects

(* The reply of the upload handler, with the folder the request asked for *)
(* and what the backend's put returned.                                   *)
UploadReply(result, u, id, fid, putOk) ==
    [op |-> "upload", result |-> result, requester |-> u, target |-> id,
     asked |-> fid, put |-> IF putOk THEN "stored" ELSE "error"]

(* POST /files/upload; putOk is the outcome of the backend's put, dbOk    *)
(* the outcome of the metadata insert; uploads is the multiset of the     *)
(* paths the handler generated, with the request each was generated for.  *)
Upload(u, fname, fid, pub, putOk, dbOk) ==
    LET folderId == UploadFolder(fid, u)
        storagePath == generateStoragePath(u, folderId, fname, now)
    IN  /\ UNCHANGED <<folders, shares, disk, now, nextFolderId, nextToken, issued,
                       reqs>>
        /\ uploads' = uploads (+) SetToBag({[userId |-> u, folderId |-> folderId,
                                             originalName |-> fname,
                                             path |-> storagePath]})
        /\ IF UploadAborted(putOk)
           THEN /\ resp' = UploadReply("StorageFailure", u, NULL, fid, putOk)
                /\ UNCHANGED <<files, objects, nextFileId>>
           ELSE /\ objects' = ObjectsAfterUpload(storagePath, putOk,
                                                 dbOk /\ FolderFkOk(folderId))
                /\ IF ~dbOk \/ ~FolderFkOk(folderId)
                   THEN /\ resp' = UploadReply("Error", u, NULL, fid, putOk)
                        /\ UNCHANGED <<files, nextFileId>>
                   ELSE /\ files' = files @@ (nextFileId :>
                                [filename |-> LastSegment(storagePath),
                                 originalName |-> fname,
                                 storagePath |-> storagePath,
                                 path |-> NoPath,
                                 isPublic |-> pub,
                                 userId |-> u,
                                 folderId |-> folderId])
                        /\ nextFileId' = nextFileId + 1
                        /\ resp' = UploadReply("Ok", u, nextFileId, fid, putOk)

(* GET /files/:id *)
FileInfo(u, id) ==
    /\ UNCHANGED <<folders, files, shares, objects, disk, now, nextFolderId, nextFileId,
                   nextToken, issued, uploads, reqs>>
    /\ resp' = Reply("fileInfo",
                         IF FindVisibleFile(id, u) = NULL THEN "NotFound" ELSE "File",
                         u, id)

(* Mutant: the bucket is used only for records without a local path. *)
UsesBucket_WhenNoLocalPath(file) == file.path = NoPath

(* if (file.storagePath) { bucket } else { local filesystem } *)
UsesBucket(file) == file.storagePath # NoPath

(* The reply of the download handler, with the backend it read from. *)
DownloadReply(result, u, id, backend) ==
    [op |-> "download", result |-> result, requester |-> u, target |-> id,
     backend |-> backend]

(* GET /files/:id/download; getOk is the outcome of the backend's get.    *)
(* The legacy branch hands file.path to res.download, which sends the     *)
(* local file or passes the read error to the error handler.              *)
Download(u, id, getOk) ==
    /\ UNCHANGED <<folders, files, shares, objects, disk, now, nextFolderId, nextFileId,
                   nextToken, issued, uploads, reqs>>
    /\ resp' =
        IF FindVisibleFile(id, u) = NULL
        THEN DownloadReply("NotFound", u, id, "none")
        ELSE IF UsesBucket(files[id])
        THEN DownloadReply(IF ~getOk THEN "StorageFailure" ELSE "File",
                           u, id, "bucket")
        ELSE DownloadReply(IF files[id].path \in disk THEN "File" ELSE "Error",
                           u, id, "local")

(* Mutant: the write handlers look the file up as the read handlers do. *)
FindOwnedFile_OrPublic(id, u) ==
    IF id \in FileIds /\ (files[id].userId = u \/ files[id].isPublic)
    THEN id ELSE NULL

PreviewTtl == 3600

(* Mutant: the handler ignores the error of createSignedUrl. *)
SignFailed_Never(signOk) == FALSE

(* if (error || !signedUrl) { ...; return res.status(500) } *)
SignFailed(signOk) == ~signOk

(* The reply of the preview handler, with the lifetime it asked the       *)
(* backend for (NULL when it made no request) and what the backend        *)
(* answered.                                                              *)
PreviewReply(result, u, id, ttl, sign, backend) ==
    [op |-> "preview", result |-> result, requester |-> u, target |-> id,
     ttl |-> ttl, sign |-> sign, backend |-> backend]

(* GET /files/:id/preview; signOk is the outcome of createSignedUrl.  A   *)
(* record without storagePath gets the URL of the download route and no   *)
(* backend is asked.                                                      *)
Preview(u, id, signOk) ==
    /\ UNCHANGED <<folders, files, shares, objects, disk, now, nextFolderId, nextFileId,
                   nextToken, issued, uploads, reqs>>
    /\ resp' =
        IF FindVisibleFile(id, u) = NULL
        THEN PreviewReply("NotFound", u, id, NULL, "none", "none")
        ELSE IF ~UsesBucket(files[id])
        THEN PreviewReply("Url", u, id, NULL, "none", "local")
        ELSE IF SignFailed(signOk)
        THEN PreviewReply("StorageFailure", u, id, PreviewTtl, "error", "bucket")
        ELSE PreviewReply("Url", u, id, PreviewTtl,
                          IF signOk THEN "signed" ELSE "error", "bucket")

(* prisma.file.findFirst({where: {id, userId}}) *)
FindOwnedFile(id, u) ==
    IF id \in FileIds /\ files[id].userId = u THEN id ELSE NULL

(* Mutant: a folder that is not the caller's is dropped without an error. *)
AssignRejected_Never(fid, u) == FALSE

(* if (folder) {...} else { flash 'Selected folder not found'; return }   *)
AssignRejected(fid, u) == fid # NULL /\ FindOwnedFolder(fid, u) = NULL

(* The reply of the assign-folder handler, with the folder asked for. *)
AssignReply(result, u, id, fid) ==
    [op |-> "assignFolder", result |-> result, requester |-> u, target |-> id,
     folder |-> fid]

(* POST /files/:id/assign-folder *)
AssignFolder(u, id, fid) ==
    /\ UNCHANGED <<folders, shares, objects, disk, now, nextFolderId, nextFileId,
                   nextToken, issued, uploads, reqs>>
    /\ IF FindOwnedFile(id, u) = NULL
       THEN /\ resp' = AssignReply("NotFound", u, id, fid)
            /\ UNCHANGED files
       ELSE IF AssignRejected(fid, u)
       THEN /\ resp' = AssignReply("InvalidOperation", u, id, fid)
            /\ UNCHANGED files
       ELSE LET validatedFolderId ==
                    IF fid # NULL /\ FindOwnedFolder(fid, u) # NULL THEN fid ELSE NULL
            IN  /\ files' = [files EXCEPT ![id].folderId = validatedFolderId]
                /\ resp' = AssignReply("Ok", u, id, fid)

(* Mutant: a failed storage delete stops the handler. *)
DeleteAborted_OnStorageError(delOk) == ~delOk

(* if (deleteError) { console.error(...); } and the handler goes on.      *)
DeleteAborted(delOk) == FALSE

(* The reply of the file delete handler, with what the backend's remove   *)
(* returned and the backend that was asked.                               *)
DeleteReply(result, u, id, delOk, backend) ==
    [op |-> "deleteFile", result |-> result, requester |-> u, target |-> id,
     storage |-> IF delOk THEN "removed" ELSE "error", backend |-> backend]

(* DELETE /files/:id; delOk is the outcome of the backend's remove, or of *)
(* fs.unlink for a record without storagePath (its error is caught and    *)
(* logged too).                                                           *)
DeleteFile(u, id, delOk) ==
    /\ UNCHANGED <<folders, shares, now, nextFolderId, nextFileId, nextToken,
                   issued, uploads, reqs>>
    /\ IF FindOwnedFile(id, u) = NULL
       THEN /\ resp' = DeleteReply("NotFound", u, id, delOk, "none")
            /\ UNCHANGED <<files, objects, disk>>
       ELSE LET backend == IF UsesBucket(files[id]) THEN "bucket" ELSE "local"
            IN  /\ objects' = IF backend = "bucket" /\ delOk
                              THEN objects \ {files[id].storagePath}
                              ELSE objects
                /\ disk' = IF backend = "local" /\ delOk
                           THEN disk \ {files[id].path}
                           ELSE disk
                /\ IF backend = "bucket" /\ DeleteAborted(delOk)
                   THEN /\ resp' = DeleteReply("StorageFailure", u, id, delOk,
                                               backend)
                        /\ UNCHANGED files
                   ELSE /\ files' = [f \in FileIds \ {id} |-> files[f]]
                        /\ resp' = DeleteReply("Ok", u, id, delOk, backend)

(* ----------------------- legacy local storage ------------------------- *)
(* multer.diskStorage names the file 'file-' + Date.now() + '-' + a       *)
(* random number + the extension, under uploads/.                         *)
LocalPath(clock, salt) == [kind |-> "uploads", stamp |-> clock, salt |-> salt]

(* The upload route of the disk-storage version: multer has written the   *)
(* file when the handler runs; the record carries path and no             *)
(* storagePath or folder; the file is unlinked when the insert throws.    *)
LegacyUpload(u, fname, pub, salt, dbOk) ==
    LET localPath == LocalPath(now, salt)
    IN  /\ UNCHANGED <<folders, shares, objects, now, nextFolderId, nextToken,
                       issued, uploads, reqs>>
        /\ IF dbOk
           THEN /\ disk' = disk \cup {localPath}
                /\ files' = files @@ (nextFileId :>
                        [filename |-> <<now, salt>>,
                         originalName |-> fname,
                         storagePath |-> NoPath,
                         path |-> localPath,
                         isPublic |-> pub,
                         userId |-> u,
                         folderId |-> NULL])
                /\ nextFileId' = nextFileId + 1
                /\ resp' = Reply("legacyUpload", "Ok", u, nextFileId)
           ELSE /\ disk' = disk \ {localPath}
                /\ resp' = Reply("legacyUpload", "Error", u, NULL)
                /\ UNCHANGED <<files, nextFileId>>

(* The local uploads/ directory loses a file outside the application:     *)
(* the case fs.access guards against in the migration loop.               *)
LoseLocalFile(p) ==
    /\ p \in disk
    /\ disk' = disk \ {p}
    /\ resp' = Reply("loseLocalFile", "none", "none", NULL)
    /\ UNCHANGED <<folders, files, shares, objects, now, nextFolderId, nextFileId,
                   nextToken, issued, uploads, reqs>>

(* ------------------------ migration to the bucket --------------------- *)
(* Mutant: the script takes every File record. *)
MigrationCandidates_All == FileIds

(* prisma.file.findMany({where: {storagePath: null}}) *)
MigrationCandidates == {f \in FileIds : files[f].storagePath = NoPath}

(* The runs of the script in progress: the rows found at the start that   *)
(* the loop has not reached yet, and what the run has done so far.        *)
MigrationRuns(rs) == {q \in rs : q.kind = "migrate"}

(* What the script logs for a step: the record, what was found at the     *)
(* start, and what uploadFile returned (none when it was not called).     *)
MigrateReply(result, id, found, put) ==
    [op |-> "migrate", result |-> result, requester |-> "script", target |-> id,
     found |-> found, put |-> put]

(* The script starts: one query for the records without storagePath. *)
BeginMigration ==
    /\ MigrationRuns(reqs) = {}
    /\ reqs' = reqs \cup {[rid |-> "migration", kind |-> "migrate",
                           todo |-> [f \in MigrationCandidates |-> files[f]],
                           found |-> Cardinality(MigrationCandidates),
                           puts |-> 0, updates |-> 0]}
    /\ resp' = MigrateReply("Found", NULL, Cardinality(MigrationCandidates), "none")
    /\ UNCHANGED <<folders, files, shares, objects, disk, now, nextFolderId,
                   nextFileId, nextToken, issued, uploads>>

(* One turn of the loop, for record f of the rows found: fs.access,       *)
(* readFile, generateStoragePath, uploadFile, prisma.file.update; putOk   *)
(* is the outcome of uploadFile.  Every failure ends the turn and the     *)
(* loop goes on; the local file is kept.                                  *)
MigrateFile(q, f, putOk) ==
    LET file == q.todo[f]
        storagePath == generateStoragePath(file.userId, file.folderId,
                                           file.originalName, now)
        hasLocal == file.path \in disk
        put == hasLocal /\ putOk
        updated == put /\ f \in FileIds
        result == IF ~hasLocal THEN "Skipped"
                  ELSE IF ~putOk THEN "UploadFailed"
                  ELSE IF ~updated THEN "Error"
                  ELSE "Migrated"
    IN  /\ objects' = IF put THEN objects \cup {storagePath} ELSE objects
        /\ files' = IF updated
                    THEN [files EXCEPT ![f].storagePath = storagePath]
                    ELSE files
        /\ reqs' = (reqs \ {q}) \cup
                     {[q EXCEPT !.todo = [g \in DOMAIN q.todo \ {f} |-> q.todo[g]],
                                !.puts = IF put THEN @ + 1 ELSE @,
                                !.updates = IF updated THEN @ + 1 ELSE @]}
        /\ resp' = MigrateReply(result, f, q.found,
                                IF ~hasLocal THEN "none"
                                ELSE IF putOk THEN "stored" ELSE "error")
        /\ UNCHANGED <<folders, shares, disk, now, nextFolderId, nextFileId,
                       nextToken, issued, uploads>>

(* The loop is over: 'Migration completed!'. *)
EndMigration(q) ==
    /\ q.todo = <<>>
    /\ reqs' = reqs \ {q}
    /\ resp' = [op |-> "migrate", result |-> "Done", requester |-> "script",
                target |-> NULL, found |-> q.found, put |-> "none",
                puts |-> q.puts, updates |-> q.updates]
    /\ UNCHANGED <<folders, files, shares, objects, disk, now, nextFolderId,
                   nextFileId, nextToken, issued, uploads>>

(* ---------------------------- share links ----------------------------- *)
Digits == {"0", "1", "2", "3", "4", "5", "6", "7", "8", "9"}

DigitValue(c) ==
    CASE c = "0" -> 0 [] c = "1" -> 1 [] c = "2" -> 2 [] c = "3" -> 3
      [] c = "4" -> 4 [] c = "5" -> 5 [] c = "6" -> 6 [] c = "7" -> 7
      [] c = "8" -> 8 [] c = "9" -> 9

(* parseInt(amount, 10) on a string of digits *)
RECURSIVE ParseInt(_)
ParseInt(s) ==
    IF s = <<>> THEN 0
    ELSE ParseInt(SubSeq(s, 1, Len(s) - 1)) * 10 + DigitValue(s[Len(s)])

(* duration.match(/^(\d+)([dhm])$/) *)
DurationMatches(d) ==
    /\ Len(d) >= 2
    /\ \A i \in 1..(Len(d) - 1) : d[i] \in Digits
    /\ d[Len(d)] \in {"d", "h", "m"}

InvalidDuration == -1

(* Mutant: only the digit next to the unit letter counts. *)
parseDuration_LastDigit(d) ==
    IF ~DurationMatches(d) THEN InvalidDuration
    ELSE LET value == DigitValue(d[Len(d) - 1])
             unit == d[Len(d)]
         IN  CASE unit = "m" -> value * 60 * 1000
               [] unit = "h" -> value * 60 * 60 * 1000
               [] unit = "d" -> value * 24 * 60 * 60 * 1000

(* parseDuration: milliseconds, or InvalidDuration where the code throws. *)
parseDuration(d) ==
    IF ~DurationMatches(d) THEN InvalidDuration
    ELSE LET value == ParseInt(SubSeq(d, 1, Len(d) - 1))
             unit == d[Len(d)]
         IN  CASE unit = "m" -> value * 60 * 1000
               [] unit = "h" -> value * 60 * 60 * 1000
               [] unit = "d" -> value * 24 * 60 * 60 * 1000

(* new Date(Date.now() + durationMs) *)
getExpirationDate(d, clock) == clock + parseDuration(d)

(* Mutant: a link is dead from its expiry instant on. *)
isExpired_AtOrAfter(expirationDate, clock) == clock >= expirationDate

(* new Date() > expirationDate *)
isExpired(expirationDate, clock) == clock > expirationDate

ShareReply(op, result, token, folderId, fs, subs, path, lookups) ==
    [op |-> op, result |-> result, requester |-> "public", target |-> token,
     folder |-> folderId, files |-> fs, subfolders |-> subs, path |-> path,
     lookups |-> lookups]

(* The reply of Issue, with the duration string the request carried. *)
IssueReply(result, u, token, d) ==
    [op |-> "issueShare", result |-> result, requester |-> u, target |-> token,
     duration |-> d]

(* Issue(folderId, owner, duration): ownership check, duration parse,     *)
(* expiresAt = now + duration, a fresh token, one shared_folders row.     *)
IssueShare(u, folderId, d) ==
    /\ UNCHANGED <<folders, files, objects, disk, now, nextFolderId, nextFileId,
                   uploads, reqs>>
    /\ IF FindOwnedFolder(folderId, u) = NULL
       THEN /\ resp' = IssueReply("NotFound", u, NULL, d)
            /\ UNCHANGED <<shares, nextToken, issued>>
       ELSE IF parseDuration(d) = InvalidDuration
       THEN /\ resp' = IssueReply("InvalidFormat", u, NULL, d)
            /\ UNCHANGED <<shares, nextToken, issued>>
       ELSE /\ shares' = shares @@ (nextToken :>
                   [folderId |-> folderId, userId |-> u, createdAt |-> now,
                    expiresAt |-> getExpirationDate(d, now)])
            /\ issued' = issued @@ (nextToken :> [at |-> now, duration |-> d,
                                                  folderId |-> folderId])
            /\ nextToken' = nextToken + 1
            /\ resp' = IssueReply("Ok", u, nextToken, d)

(* Mutant: resolving an expired link also removes its row. *)
ResolveShare_PurgesExpired(token) ==
    /\ UNCHANGED <<folders, files, objects, disk, now, nextFolderId, nextFileId,
                   nextToken, issued, uploads, reqs>>
    /\ shares' = IF token \in DOMAIN shares /\ isExpired(shares[token].expiresAt, now)
                 THEN [t \in DOMAIN shares \ {token} |-> shares[t]]
                 ELSE shares
    /\ resp' =
        IF token \notin DOMAIN shares
        THEN ShareReply("share", "NotFound", token, NULL, {}, {}, <<>>, 0)
        ELSE IF isExpired(shares[token].expiresAt, now)
        THEN ShareReply("share", "Expired", token, NULL, {}, {}, <<>>, 0)
        ELSE LET root == shares[token].folderId
             IN  ShareReply("share", "Ok", token, root, FilesIn(root),
                            Children(root), <<>>, 0)

(* GET /share/:token *)
ResolveShare(token) ==
    /\ UNCHANGED <<folders, files, shares, objects, disk, now, nextFolderId, nextFileId,
                   nextToken, issued, uploads, reqs>>
    /\ resp' =
        IF token \notin DOMAIN shares
        THEN ShareReply("share", "NotFound", token, NULL, {}, {}, <<>>, 0)
        ELSE IF isExpired(shares[token].expiresAt, now)
        THEN ShareReply("share", "Expired", token, NULL, {}, {}, <<>>, 0)
        ELSE LET root == shares[token].folderId
             IN  ShareReply("share", "Ok", token, root, FilesIn(root),
                            Children(root), <<>>, 0)

(* Mutant: a walk that ends at a root folder counts as inside. *)
RECURSIVE verifyFolderInHierarchy_RootsInside(_, _, _, _)
verifyFolderInHierarchy_RootsInside(folderId, rootFolderId, fuel, n) ==
    IF folderId = rootFolderId
    THEN [verdict |-> "inside", lookups |-> n]
    ELSE IF folderId \notin FolderIds
    THEN [verdict |-> "outside", lookups |-> n + 1]
    ELSE IF folders[folderId].parentId = NULL
    THEN [verdict |-> "inside", lookups |-> n + 1]
    ELSE IF fuel = 0
    THEN [verdict |-> "diverges", lookups |-> n + 1]
    ELSE verifyFolderInHierarchy_RootsInside(folders[folderId].parentId,
                                             rootFolderId, fuel - 1, n + 1)

(* verifyFolderInHierarchy: the recursion has no bound of its own.  Run   *)
(* with fuel = number of folders, a walk that is still going when the     *)
(* fuel is spent has looked up more rows than the table holds, so it is   *)
(* inside a cycle of parent links and never returns: "diverges".          *)
RECURSIVE verifyFolderInHierarchy(_, _, _, _)
verifyFolderInHierarchy(folderId, rootFolderId, fuel, n) ==
    IF folderId = rootFolderId
    THEN [verdict |-> "inside", lookups |-> n]
    ELSE IF folderId \notin FolderIds \/ folders[folderId].parentId = NULL
    THEN [verdict |-> "outside", lookups |-> n + 1]
    ELSE IF fuel = 0
    THEN [verdict |-> "diverges", lookups |-> n + 1]
    ELSE verifyFolderInHierarchy(folders[folderId].parentId, rootFolderId,
                                 fuel - 1, n + 1)

(* Mutant: each folder met is appended instead of put in front. *)
RECURSIVE buildFolderPath_Appends(_, _, _)
buildFolderPath_Appends(currentId, rootFolderId, fuel) ==
    IF currentId = NULL \/ currentId = rootFolderId THEN <<>>
    ELSE IF currentId \notin FolderIds THEN <<>>
    ELSE IF fuel = 0 THEN <<"diverges">>
    ELSE <<[id |-> currentId, name |-> folders[currentId].name]>>
            \o buildFolderPath_Appends(folders[currentId].parentId, rootFolderId,
                                       fuel - 1)

(* buildFolderPath: the while loop, with the same fuel. *)
RECURSIVE buildFolderPath(_, _, _)
buildFolderPath(currentId, rootFolderId, fuel) ==
    IF currentId = NULL \/ currentId = rootFolderId THEN <<>>
    ELSE IF currentId \notin FolderIds THEN <<>>
    ELSE IF fuel = 0 THEN <<"diverges">>
    ELSE buildFolderPath(folders[currentId].parentId, rootFolderId, fuel - 1)
            \o <<[id |-> currentId, name |-> folders[currentId].name]>>

(* GET /share/:token/folder/:folderId *)
ResolveSubfolder(token, folderId) ==
    /\ UNCHANGED <<folders, files, shares, objects, disk, now, nextFolderId, nextFileId,
                   nextToken, issued, uploads, reqs>>
    /\ resp' =
        IF token \notin DOMAIN shares
        THEN ShareReply("shareFolder", "NotFound", token, folderId, {}, {}, <<>>, 0)
        ELSE IF isExpired(shares[token].expiresAt, now)
        THEN ShareReply("shareFolder", "Expired", token, folderId, {}, {}, <<>>, 0)
        ELSE IF folderId \notin FolderIds
        THEN ShareReply("shareFolder", "NotFound", token, folderId, {}, {}, <<>>, 0)
        ELSE LET root == shares[token].folderId
                 walk == verifyFolderInHierarchy(folderId, root,
                                                 Cardinality(FolderIds), 0)
             IN  IF walk.verdict = "diverges"
                 THEN ShareReply("shareFolder", "Diverges", token, folderId, {}, {},
                                 <<>>, walk.lookups)
                 ELSE IF walk.verdict = "outside"
                 THEN ShareReply("shareFolder", "Forbidden", token, folderId, {}, {},
                                 <<>>, walk.lookups)
                 ELSE ShareReply("shareFolder", "Ok", token, folderId,
                                 FilesIn(folderId), Children(folderId),
                                 buildFolderPath(folderId, root,
                                                 Cardinality(FolderIds)),
                                 walk.lookups)

(* The same route at the grain of its awaits.  WalkReply is what it       *)
(* answers, with the history of the request.                              *)
WalkReply(result, q, path) ==
    [op |-> "shareWalk", result |-> result, requester |-> "public",
     target |-> q.token, folder |-> q.folder, root |-> q.root,
     files |-> IF result = "Ok" THEN q.files ELSE {},
     subfolders |-> IF result = "Ok" THEN q.children ELSE {},
     path |-> path, inside |-> q.inside]

(* The route up to the call of verifyFolderInHierarchy: the link is       *)
(* looked up and checked, and the requested folder is loaded with its     *)
(* files and children.                                                    *)
BeginResolveSubfolder(token, folderId) ==
    /\ UNCHANGED <<folders, files, shares, objects, disk, now, nextFolderId,
                   nextFileId, nextToken, issued, uploads>>
    /\ IF token \notin DOMAIN shares
       THEN /\ resp' = ShareReply("shareWalk", "NotFound", token, folderId, {}, {},
                                  <<>>, 0)
            /\ UNCHANGED reqs
       ELSE IF isExpired(shares[token].expiresAt, now)
       THEN /\ resp' = ShareReply("shareWalk", "Expired", token, folderId, {}, {},
                                  <<>>, 0)
            /\ UNCHANGED reqs
       ELSE IF folderId \notin FolderIds
       THEN /\ resp' = ShareReply("shareWalk", "NotFound", token, folderId, {}, {},
                                  <<>>, 0)
            /\ UNCHANGED reqs
       ELSE LET root == shares[token].folderId
            IN  /\ reqs' = reqs \cup
                     {[rid |-> "walk", kind |-> "walk", token |-> token,
                       folder |-> folderId, root |-> root, cur |-> folderId,
                       files |-> FilesIn(folderId),
                       children |-> Children(folderId),
                       inside |-> InsideOf(folders, folderId, root,
                                           Cardinality(FolderIds))]}
                /\ resp' = ShareReply("shareWalk", "Walking", token, folderId, {},
                                      {}, <<>>, 0)

(* One call of verifyFolderInHierarchy for request q: the comparison with *)
(* the root, then one findUnique that reads the parent link.  When the    *)
(* walk has reached the root the route builds the breadcrumb and renders  *)
(* what it loaded at the start.                                           *)
WalkStep(q) ==
    /\ q.kind = "walk"
    /\ UNCHANGED <<folders, files, shares, objects, disk, now, nextFolderId,
                   nextFileId, nextToken, issued, uploads>>
    /\ IF q.cur = q.root
       THEN /\ reqs' = reqs \ {q}
            /\ resp' = WalkReply("Ok", q,
                                 buildFolderPath(q.folder, q.root,
                                                 Cardinality(FolderIds)))
       ELSE IF q.cur \notin FolderIds \/ folders[q.cur].parentId = NULL
       THEN /\ reqs' = reqs \ {q}
            /\ resp' = WalkReply("Forbidden", q, <<>>)
       ELSE /\ reqs' = (reqs \ {q}) \cup {[q EXCEPT !.cur = folders[q.cur].parentId]}
            /\ resp' = WalkReply("Walking", q, <<>>)

(* ------------------------------- clock -------------------------------- *)
ClockSteps == {60000}

Tick(d) ==
    /\ now' = now + d
    /\ resp' = Reply("tick", "none", "none", NULL)
    /\ UNCHANGED <<folders, files, shares, objects, disk, nextFolderId, nextFileId,
                   nextToken, issued, uploads, reqs>>

Init ==
    /\ folders = <<>>
    /\ files = <<>>
    /\ shares = <<>>
    /\ objects = {}
    /\ disk = {}
    /\ now = 0
    /\ nextFolderId = 1
    /\ nextFileId = 1
    /\ nextToken = 1
    /\ issued = <<>>
    /\ uploads = EmptyBag
    /\ reqs = {}
    /\ resp = Reply("none", "none", "none", NULL)

ParentArgs == {NULL} \cup FolderIdSpace

FileNames == {<<"a", " ">>, <<"a", "_">>}

(* Folder tree: every folder handler, for every owner. *)
TreeNext ==
    \/ /\ nextFolderId <= MaxFolders
       /\ \E u \in Users, raw \in RawNames, pid \in ParentArgs :
            CreateFolder(u, raw, pid)
    \/ \E u \in Users, id \in FolderIdSpace, raw \in RawNames, pid \in ParentArgs :
            UpdateFolder(u, id, raw, pid)
    \/ \E u \in Users, id \in FolderIdSpace : DeleteFolder(u, id)

TreeSpec == Init /\ [][TreeNext]_vars

(* Folders with files in them: creation, uploads into folders, deletion. *)
GuardNames == {<<" ", "a">>, <<"b">>}

GuardNext ==
    \/ /\ nextFolderId <= MaxFolders
       /\ \E u \in Users, raw \in GuardNames, pid \in ParentArgs :
            CreateFolder(u, raw, pid)
    \/ /\ nextFileId <= MaxFiles
       /\ \E u \in Users, fid \in ParentArgs :
            Upload(u, <<"a", " ">>, fid, FALSE, TRUE, TRUE)
    \/ \E u \in Users, id \in FolderIdSpace : DeleteFolder(u, id)

GuardSpec == Init /\ [][GuardNext]_vars

(* Concurrent folder writes of one owner: the pre-check and the write of  *)
(* a request are separate steps, at most MaxReqs requests in flight.      *)
ConcUsers == {"u1"}

ConcNext ==
    \/ /\ Cardinality(reqs) < MaxReqs
       /\ nextFolderId + Cardinality(PendingCreates) <= MaxFolders
       /\ \E u \in ConcUsers, raw \in RawNames, pid \in ParentArgs :
            BeginCreateFolder(u, raw, pid)
    \/ \E q \in reqs : CommitCreateFolder(q)
    \/ /\ Cardinality(reqs) < MaxReqs
       /\ \E u \in ConcUsers, id \in FolderIdSpace, raw \in RawNames, pid \in ParentArgs :
            BeginUpdateFolder(u, id, raw, pid)
    \/ \E q \in reqs : CommitUpdateFolder(q)

ConcSpec == Init /\ [][ConcNext]_vars

(* File records: uploads by every user at every clock value, and the      *)
(* read handlers.  A folder id that names no folder is among the inputs.  *)
FileFolderArgs == {NULL, 1}

FileNext ==
    \/ /\ BagCardinality(uploads) < MaxUploads
       /\ \E u \in Users, fname \in FileNames, fid \in FileFolderArgs,
             pub \in BOOLEAN, putOk \in BOOLEAN, dbOk \in BOOLEAN :
            Upload(u, fname, fid, pub, putOk, dbOk)
    \/ \E u \in Users, id \in FileIdSpace : FileInfo(u, id)
    \/ \E u \in Users, id \in FileIdSpace, getOk \in BOOLEAN : Download(u, id, getOk)
    \/ \E d \in ClockSteps : now + d <= MaxFileNow /\ Tick(d)

FileSpec == Init /\ [][FileNext]_vars

(* Files moved between folders: every user's root folders, uploads into   *)
(* any folder id, reassignment to any folder id, folder deletion.         *)
AssignFileIds == 1..(MaxFiles + 1)

AssignNext ==
    \/ /\ nextFolderId <= MaxFolders
       /\ \E u \in Users : CreateFolder(u, <<"b">>, NULL)
    \/ /\ nextFileId <= MaxFiles
       /\ \E u \in Users, fid \in ParentArgs :
            Upload(u, <<"a", " ">>, fid, FALSE, TRUE, TRUE)
    \/ \E u \in Users, id \in AssignFileIds, fid \in ParentArgs :
            AssignFolder(u, id, fid)
    \/ \E u \in Users, id \in FolderIdSpace : DeleteFolder(u, id)

AssignSpec == Init /\ [][AssignNext]_vars

(* Writes by every user on every record: root folders and public and     *)
(* private files of two users, and the four mutating handlers called by   *)
(* either user on any id.                                                 *)
OwnerNext ==
    \/ /\ nextFolderId <= MaxFolders
       /\ \E u \in Users : CreateFolder(u, <<"b">>, NULL)
    \/ /\ nextFileId <= MaxFiles
       /\ \E u \in Users, pub \in BOOLEAN :
            Upload(u, <<"a", " ">>, NULL, pub, TRUE, TRUE)
    \/ \E u \in Users, id \in AssignFileIds : DeleteFile(u, id, TRUE)
    \/ \E u \in Users, id \in AssignFileIds, fid \in FileFolderArgs :
            AssignFolder(u, id, fid)
    \/ \E u \in Users, id \in FolderIdSpace : UpdateFolder(u, id, <<" ", "a">>, NULL)
    \/ \E u \in Users, id \in FolderIdSpace : DeleteFolder(u, id)

OwnerSpec == Init /\ [][OwnerNext]_vars

(* File deletion: public and private uploads of every user, deletion with *)
(* the backend's remove succeeding or failing, and the read handlers.     *)
PurgeNext ==
    \/ /\ nextFileId <= MaxUploads
       /\ \E u \in Users, pub \in BOOLEAN :
            Upload(u, <<"a", " ">>, NULL, pub, TRUE, TRUE)
    \/ \E u \in Users, id \in FileIdSpace, delOk \in BOOLEAN : DeleteFile(u, id, delOk)
    \/ \E u \in Users, id \in FileIdSpace : FileInfo(u, id)
    \/ \E u \in Users, id \in FileIdSpace, getOk \in BOOLEAN : Download(u, id, getOk)
    \/ \E u \in Users, id \in FileIdSpace, signOk \in BOOLEAN : Preview(u, id, signOk)

PurgeSpec == Init /\ [][PurgeNext]_vars

(* Records of both generations, the migration script and the handlers     *)
(* that choose a backend.                                                 *)
LegacySalts == {1, 2}

LegacyNext ==
    \/ /\ nextFileId <= MaxUploads
       /\ \E salt \in LegacySalts : LegacyUpload("u1", <<"a">>, FALSE, salt, TRUE)
    \/ /\ nextFileId <= MaxUploads
       /\ Upload("u1", <<"a">>, NULL, FALSE, TRUE, TRUE)
    \/ \E p \in disk : LoseLocalFile(p)
    \/ BeginMigration
    \/ \E q \in MigrationRuns(reqs) : \E f \in DOMAIN q.todo, putOk \in BOOLEAN :
            MigrateFile(q, f, putOk)
    \/ \E q \in MigrationRuns(reqs) : EndMigration(q)
    \/ \E id \in FileIdSpace : Download("u1", id, TRUE)
    \/ \E id \in FileIdSpace, delOk \in BOOLEAN : DeleteFile("u1", id, delOk)
    \/ \E id \in FileIdSpace : Preview("u1", id, TRUE)

LegacySpec == Init /\ [][LegacyNext]_vars

(* Folder deletion racing with writes into the folder: the emptiness      *)
(* check and the removal of a Delete are separate steps, and creates,     *)
(* uploads and reassignments of the same owner run between them.          *)
RaceNext ==
    \/ /\ nextFolderId <= MaxFolders
       /\ \E u \in ConcUsers, pid \in ParentArgs : CreateFolder(u, <<"b">>, pid)
    \/ /\ nextFileId <= MaxFiles
       /\ \E u \in ConcUsers, fid \in ParentArgs :
            Upload(u, <<"a", " ">>, fid, FALSE, TRUE, TRUE)
    \/ \E u \in ConcUsers, id \in AssignFileIds, fid \in ParentArgs :
            AssignFolder(u, id, fid)
    \/ /\ Cardinality(reqs) < MaxReqs
       /\ \E u \in ConcUsers, id \in FolderIdSpace : BeginDeleteFolder(u, id)
    \/ \E q \in reqs : CommitDeleteFolder(q)

RaceSpec == Init /\ [][RaceNext]_vars

(* Share links over time: one owner's root folders, links of several     *)
(* durations issued on them, resolution at every clock value, and folder  *)
(* deletion (which removes the folder's links).                           *)
ShareUsers == {"u1"}
ShareNames == {<<" ", "a">>, <<"b">>}
Durations == {<<"1", "m">>, <<"2", "m">>, <<"1", "x">>}

ExpiryNext ==
    \/ /\ nextFolderId <= MaxFolders
       /\ \E u \in ShareUsers : CreateFolder(u, <<"b">>, NULL)
    \/ \E u \in ShareUsers, id \in FolderIdSpace : DeleteFolder(u, id)
    \/ /\ nextToken <= MaxShares
       /\ \E u \in Users, id \in FolderIdSpace, d \in Durations :
            IssueShare(u, id, d)
    \/ \E t \in TokenSpace : ResolveShare(t)
    \/ \E t \in TokenSpace, id \in FolderIdSpace : ResolveSubfolder(t, id)
    \/ \E d \in ClockSteps : now + d <= MaxNow /\ Tick(d)

ExpirySpec == Init /\ [][ExpiryNext]_vars

(* Duration strings: every string of up to MaxDurLen characters over a    *)
(* small alphabet, and one sample of each malformed shape with longer     *)
(* amounts; links of these durations issued at several clock values.      *)
DurationAlphabet == {"0", "1", "m", "h", "d", "x"}

RECURSIVE StringsUpTo(_)
StringsUpTo(n) ==
    IF n = 0 THEN {<<>>}
    ELSE LET shorter == StringsUpTo(n - 1)
         IN  shorter \cup {Append(w, c) : w \in shorter, c \in DurationAlphabet}

DurationSamples ==
    {<<"0", "7", "d">>, <<"1", "0", "h">>, <<"2", "4", "d">>,
     <<"1", "d", "1", "2", "h">>, <<"-", "2", "m">>, <<"+", "2", "m">>,
     <<"2", ".", "5", "m">>, <<"2", "M">>, <<"2", " ", "m">>, <<" ", "2", "m">>,
     <<"2", "m", " ">>, <<"2", "w">>}

DurationStrings == StringsUpTo(MaxDurLen) \cup DurationSamples

DurationNext ==
    \/ /\ nextFolderId <= MaxFolders
       /\ \E u \in ShareUsers : CreateFolder(u, <<"b">>, NULL)
    \/ /\ nextToken <= MaxLinks
       /\ \E u \in ShareUsers, d \in DurationStrings : IssueShare(u, 1, d)
    \/ \E d \in ClockSteps : now + d <= MaxFileNow /\ Tick(d)

DurationSpec == Init /\ [][DurationNext]_vars

(* Shared subtrees: one owner's folders are created and moved, a link is  *)
(* issued, and folders are requested through it.                          *)
SubtreeNext ==
    \/ /\ nextFolderId <= MaxFolders
       /\ \E u \in ShareUsers, raw \in ShareNames, pid \in ParentArgs :
            CreateFolder(u, raw, pid)
    \/ \E u \in ShareUsers, id \in FolderIdSpace, raw \in ShareNames, pid \in ParentArgs :
            UpdateFolder(u, id, raw, pid)
    \/ /\ nextToken <= MaxLinks
       /\ \E u \in ShareUsers, id \in FolderIdSpace : IssueShare(u, id, <<"1", "m">>)
    \/ \E t \in 1..(MaxLinks + 1), id \in FolderIdSpace : ResolveSubfolder(t, id)

SubtreeSpec == Init /\ [][SubtreeNext]_vars

(* Breadcrumbs: one owner's folders created at any place of the tree, the *)
(* first of them moved to any place, a link on any folder, and folders    *)
(* requested through it.                                                  *)
ChainIds == 1..MaxChain

ChainNext ==
    \/ /\ nextFolderId <= MaxChain
       /\ \E u \in ShareUsers, raw \in ShareNames, pid \in {NULL} \cup ChainIds :
            CreateFolder(u, raw, pid)
    \/ \E u \in ShareUsers, pid \in {NULL} \cup ChainIds :
            UpdateFolder(u, 1, <<"b">>, pid)
    \/ /\ nextToken <= MaxLinks
       /\ \E u \in ShareUsers, id \in ChainIds : IssueShare(u, id, <<"1", "m">>)
    \/ \E t \in 1..MaxLinks, id \in ChainIds : ResolveSubfolder(t, id)

ChainSpec == Init /\ [][ChainNext]_vars

(* Subfolder requests at the grain of their reads, with the owner moving  *)
(* folders in between.                                                    *)
WalkName(i) == [j \in 1..i |-> "a"]

WalkNext ==
    \/ /\ nextFolderId <= MaxChain
       /\ \E pid \in {NULL} \cup ChainIds :
            CreateFolder("u1", WalkName(nextFolderId), pid)
    \/ \E id \in FolderIds, pid \in {NULL} \cup ChainIds :
            UpdateFolder("u1", id, folders[id].name, pid)
    \/ /\ nextToken <= MaxLinks
       /\ \E id \in ChainIds : IssueShare("u1", id, <<"1", "m">>)
    \/ /\ Cardinality(reqs) < MaxLinks
       /\ \E t \in 1..MaxLinks, id \in ChainIds : BeginResolveSubfolder(t, id)
    \/ \E q \in reqs : WalkStep(q)

WalkSpec == Init /\ [][WalkNext]_vars

(* One owner's creates, renames and moves. *)
RepeatNext ==
    \/ /\ nextFolderId <= MaxFolders
       /\ \E raw \in ShareNames, pid \in ParentArgs : CreateFolder("u1", raw, pid)
    \/ \E u \in Users, id \in FolderIdSpace, raw \in ShareNames,
          pid \in FileFolderArgs :
            UpdateFolder(u, id, raw, pid)

RepeatSpec == Init /\ [][RepeatNext]_vars

(* ======================= claims on the folder tree ==================== *)
RECURSIVE ReachesRootWithin(_, _)
ReachesRootWithin(id, k) ==
    IF id = NULL THEN TRUE
    ELSE IF k = 0 \/ id \notin FolderIds THEN FALSE
    ELSE ReachesRootWithin(folders[id].parentId, k - 1)

OwnerFolderCount(u) == Cardinality({g \in FolderIds : folders[g].userId = u})

(* C1: after any sequence of Create and Rename/Move the folder graph has  *)
(* no cycle: from every folder the parent links reach a folder with       *)
(* parentId = null within as many steps as the owner has folders.         *)
C1_NoCycles ==
    \A f \in FolderIds : ReachesRootWithin(f, OwnerFolderCount(folders[f].userId))

SlotHolders(u, pid, name) ==
    {c \in FolderIds : /\ folders[c].userId = u
                       /\ folders[c].parentId = pid
                       /\ folders[c].name = name}

SiblingUnique ==
    \A c \in FolderIds, d \in FolderIds :
        (c # d /\ folders[c].userId = folders[d].userId
               /\ folders[c].parentId = folders[d].parentId)
            => folders[c].name # folders[d].name

(* The raw names validateFolder accepts, and the name each is stored as.  *)
AcceptedNames == {raw \in RawNames : validateFolder(raw)}

StoredName == [raw \in AcceptedNames |-> Trim(SanitizeName(raw))]

(* The raw names that are stored as the name folder c carries.            *)
RawNamesOf(c) == {raw \in AcceptedNames : StoredName[raw] = folders[c].name}

(* A Create by an owner, or a Rename/Move by the folder's owner, whose    *)
(* target (owner, parentId, name) is the slot another folder c holds      *)
(* replies Conflict and changes no folder; every Conflict reply leaves    *)
(* the tables as they were.                                               *)
ConflictStep ==
    /\ resp'.op = "createFolder" =>
          \A c \in FolderIds :
              folders[c].userId = resp'.requester =>
                  \A raw \in RawNamesOf(c) :
                      CreateFolder(resp'.requester, raw, folders[c].parentId)
                      => (resp'.result = "Conflict" /\ folders' = folders)
    /\ (resp'.op = "updateFolder" /\ resp'.target \in FolderIds) =>
          \A c \in FolderIds \ {resp'.target} :
              (/\ folders[c].userId = resp'.requester
               /\ folders[resp'.target].userId = resp'.requester) =>
                  \A raw \in RawNamesOf(c) :
                      UpdateFolder(resp'.requester, resp'.target, raw,
                                   folders[c].parentId)
                      => (resp'.result = "Conflict" /\ folders' = folders)
    /\ (resp'.op \in {"createFolder", "updateFolder"} /\ resp'.result = "Conflict")
          => UNCHANGED <<folders, files, shares>>

(* C2: sequential Create and Rename/Move keep sibling names unique per    *)
(* (owner, parentId); a write into a slot held by another folder yields   *)
(* Conflict and leaves the folder store unchanged.                        *)
C2_SiblingUnique == []SiblingUnique /\ [][ConflictStep]_vars

C2_Witness ==
    /\ resp.op = "updateFolder"
    /\ resp.result = "Conflict"
    /\ Cardinality(FolderIds) >= 2

(* C4: Delete by the owner of a folder with a child folder or a file      *)
(* yields NotEmpty and changes no folder and no file; Delete removes the  *)
(* folder record only when it has neither.                                *)
DeleteGuardStep ==
    (/\ resp'.op = "deleteFolder"
     /\ resp'.target \in FolderIds
     /\ folders[resp'.target].userId = resp'.requester)
    => LET id == resp'.target
           nonEmpty == \/ \E c \in FolderIds : folders[c].parentId = id
                       \/ \E f \in FileIds : files[f].folderId = id
       IN  IF nonEmpty
           THEN /\ resp'.result = "NotEmpty"
                /\ folders' = folders
                /\ files' = files
           ELSE /\ resp'.result = "Ok"
                /\ folders' = [i \in FolderIds \ {id} |-> folders[i]]
                /\ files' = files

C4_DeleteGuard == [][DeleteGuardStep]_vars

C4_Witness ==
    /\ resp.op = "deleteFolder"
    /\ resp.result = "NotEmpty"
    /\ \E f \in FileIds : files[f].folderId = resp.target

(* C3: when folder writes of one owner that target the same               *)
(* (parentId, name) slot interleave their pre-checks and writes, at most  *)
(* one of them succeeds: every slot is held by at most one folder in      *)
(* every state reached.                                                   *)
C3_ConcurrentUnique ==
    \A c \in FolderIds :
        Cardinality(SlotHolders(folders[c].userId, folders[c].parentId,
                                folders[c].name)) = 1
(* ========================= claims on file records ===================== *)
Visible(f, r) == f \in FileIds /\ (files[f].userId = r \/ files[f].isPublic)

(* C5, as stated: info and download return the file if and only if it     *)
(* exists and the requester owns it or it is public; every other outcome  *)
(* is NotFound.                                                           *)
C5_ResolveAsStated ==
    resp.op \in {"fileInfo", "download"} =>
        /\ resp.result = "File" <=> Visible(resp.target, resp.requester)
        /\ resp.result # "File" => resp.result = "NotFound"

(* C5, amended: the outcome is NotFound if and only if no such file       *)
(* exists or the requester neither owns it nor is it public; otherwise    *)
(* info returns the file, and download returns the file or, when the      *)
(* backend's get fails, a storage failure.                                *)
C5_Resolve ==
    /\ resp.op = "fileInfo" =>
        resp.result = IF Visible(resp.target, resp.requester)
                      THEN "File" ELSE "NotFound"
    /\ resp.op = "download" =>
        /\ resp.result = "NotFound" <=> ~Visible(resp.target, resp.requester)
        /\ resp.result \in {"File", "StorageFailure", "NotFound"}

C5_Witness ==
    /\ resp.op = "download"
    /\ resp.result = "File"
    /\ resp.target \in FileIds
    /\ files[resp.target].userId # resp.requester
    /\ files[resp.target].isPublic

(* C9: an Upload whose backend put fails reports failure and creates no   *)
(* File record.                                                           *)
PutFailureStep ==
    (resp'.op = "upload" /\ resp'.put = "error") =>
        /\ resp'.result = "StorageFailure"
        /\ files' = files
        /\ nextFileId' = nextFileId

C9_PutFailure == [][PutFailureStep]_vars

C9_Witness ==
    /\ resp.op = "upload"
    /\ resp.put = "error"
    /\ resp.result = "StorageFailure"
    /\ FileIds # {}

(* C10: any two Uploads with the same owner, folder and display name get  *)
(* two distinct storage paths, whatever the clock reads.                  *)
C10_DistinctPaths ==
    \A e \in BagToSet(uploads) : CopiesIn(e, uploads) = 1
(* ========================= claims on share links ====================== *)
(* What each accepted duration string is worth, in milliseconds. *)
ExpectedMs(d) ==
    CASE d = <<"1", "m">> -> 60000
      [] d = <<"2", "m">> -> 120000

(* C6: a link issued at t for duration d resolves while now <= t + d and  *)
(* is Expired once now > t + d; a token that was never issued is          *)
(* NotFound, and an absent token is never reported Expired.               *)
C6_TokenLifecycle ==
    /\ \A t \in DOMAIN shares :
          shares[t].expiresAt = issued[t].at + ExpectedMs(issued[t].duration)
    /\ resp.op = "share" =>
          LET t == resp.target
          IN  /\ t \notin DOMAIN issued => resp.result = "NotFound"
              /\ t \notin DOMAIN shares => resp.result = "NotFound"
              /\ t \in DOMAIN shares =>
                    LET dead == issued[t].at + ExpectedMs(issued[t].duration)
                    IN  /\ now <= dead => resp.result = "Ok"
                        /\ now > dead => resp.result = "Expired"

C6_Witness ==
    /\ resp.op = "share"
    /\ resp.result = "Ok"
    /\ resp.target \in DOMAIN shares
    /\ now = shares[resp.target].expiresAt
    /\ now > 0

(* The folders and the null parent met by following parent links upward  *)
(* from F, F included.                                                    *)
RECURSIVE UpClosure(_)
UpClosure(S) ==
    LET more == S \cup {folders[x].parentId : x \in S \cap FolderIds}
    IN  IF more = S THEN S ELSE UpClosure(more)

LiveToken(t) == t \in DOMAIN shares /\ now <= shares[t].expiresAt

(* C7: under a valid unexpired token for root A, ResolveSubfolder(F)      *)
(* succeeds if and only if F exists and the parent links from F reach A   *)
(* (F = A included); an existing F whose walk reaches a null parent       *)
(* without meeting A is Forbidden and nothing of F is returned.           *)
C7_SubtreeContainment ==
    (resp.op = "shareFolder" /\ LiveToken(resp.target)) =>
        LET A == shares[resp.target].folderId
            F == resp.folder
            up == UpClosure({F})
        IN  /\ resp.result = "Ok" <=> (F \in FolderIds /\ A \in up)
            /\ (F \in FolderIds /\ A \notin up /\ NULL \in up) =>
                  /\ resp.result = "Forbidden"
                  /\ resp.files = {}
                  /\ resp.subfolders = {}

C7_Witness ==
    /\ resp.op = "shareFolder"
    /\ LiveToken(resp.target)
    /\ resp.result = "Forbidden"
    /\ \E c \in FolderIds : folders[c].parentId = resp.folder

(* C8: the containment walk and the breadcrumb walk of ResolveSubfolder   *)
(* terminate whatever the folder table holds, within as many steps as     *)
(* there are folders.                                                     *)
C8_WalksTerminate ==
    resp.op = "shareFolder" =>
        /\ resp.result # "Diverges"
        /\ resp.lookups <= Cardinality(FolderIds)
        /\ Len(resp.path) <= Cardinality(FolderIds)
(* ================= claims on folder moves and parents ================= *)
(* F and the folders whose parent links lead to F. *)
SelfAndDescendants(F) == {x \in FolderIds : F \in UpClosure({x})}

(* A Rename/Move that succeeds never leaves the folder under a parent     *)
(* that was the folder itself or one of its descendants.                  *)
CycleGuardStep ==
    (/\ resp'.op = "updateFolder"
     /\ resp'.result = "Ok"
     /\ resp'.target \in FolderIds)
    => folders'[resp'.target].parentId \notin SelfAndDescendants(resp'.target)

(* C11: a Rename/Move of folder F by its owner whose newParentId is F or  *)
(* a descendant of F fails and changes no folder: no successful           *)
(* Rename/Move puts F under itself or under one of its descendants.       *)
C11_CycleGuard == [][CycleGuardStep]_vars

(* C12: after any sequence of Create and Rename/Move, every folder with   *)
(* a non-null parentId has a parent that exists and has the same owner.   *)
C12_ParentOwned ==
    \A f \in FolderIds :
        folders[f].parentId # NULL =>
            /\ folders[f].parentId \in FolderIds
            /\ folders[folders[f].parentId].userId = folders[f].userId
(* ===================== claims on files and folders ==================== *)
(* C13: after any sequence of Upload, Reassign and folder Delete, every   *)
(* file whose folder is set refers to an existing folder owned by the     *)
(* file's owner.                                                          *)
C13_FileFolderOwned ==
    \A f \in FileIds :
        files[f].folderId # NULL =>
            /\ files[f].folderId \in FolderIds
            /\ folders[files[f].folderId].userId = files[f].userId

C13_Witness ==
    /\ resp.op = "assignFolder"
    /\ resp.result = "Ok"
    /\ resp.target \in FileIds
    /\ files[resp.target].folderId # NULL
    /\ \E g \in FolderIds : folders[g].userId # resp.requester

(* An upload that asks for a folder that does not exist or is another     *)
(* user's, and whose put and insert succeed, succeeds: the new record has *)
(* no folder and its path is built under root, without the folder id.     *)
SilentClearStep ==
    (/\ resp'.op = "upload"
     /\ resp'.asked # NULL
     /\ ~(resp'.asked \in FolderIds /\ folders[resp'.asked].userId = resp'.requester))
    => /\ resp'.result = "Ok"
       /\ resp'.target \in DOMAIN files' \ DOMAIN files
       /\ files'[resp'.target].folderId = NULL
       /\ files'[resp'.target].storagePath.kind = "root"
       /\ files'[resp'.target].storagePath.folder # resp'.asked

(* C14: Upload with a folderId that does not exist or is owned by another *)
(* user does not fail: it creates the File record with folder = null and  *)
(* a storage path with the root segment instead of the folder id.         *)
C14_SilentClear == [][SilentClearStep]_vars

C14_Witness ==
    /\ resp.op = "upload"
    /\ resp.result = "Ok"
    /\ resp.asked \in FolderIds
    /\ folders[resp.asked].userId # resp.requester
    /\ files[resp.target].folderId = NULL

(* The three outcomes of a Reassign by the file's owner. *)
ReassignStep ==
    (/\ resp'.op = "assignFolder"
     /\ resp'.target \in FileIds
     /\ files[resp'.target].userId = resp'.requester)
    => LET id == resp'.target
           fid == resp'.folder
       IN  IF fid = NULL
           THEN /\ resp'.result = "Ok"
                /\ files' = [files EXCEPT ![id].folderId = NULL]
           ELSE IF fid \in FolderIds /\ folders[fid].userId = resp'.requester
           THEN /\ resp'.result = "Ok"
                /\ files' = [files EXCEPT ![id].folderId = fid]
           ELSE /\ resp'.result = "InvalidOperation"
                /\ files' = files

(* C15: Reassign by the file's owner to a folder that does not exist or   *)
(* is another user's fails with InvalidOperation and leaves the file's    *)
(* folder as it was; Reassign to null puts the file at root; Reassign to  *)
(* an owned folder puts the file in it.                                   *)
C15_Reassign == [][ReassignStep]_vars

C15_Witness ==
    /\ resp.op = "assignFolder"
    /\ resp.result = "InvalidOperation"
    /\ resp.target \in FileIds
    /\ files[resp.target].folderId # NULL
    /\ resp.folder \in FolderIds

(* A Delete by the file's owner removes the record and reports success,   *)
(* whatever the backend's remove returned.                                *)
FileDeleteStep ==
    (/\ resp'.op = "deleteFile"
     /\ resp'.target \in FileIds
     /\ files[resp'.target].userId = resp'.requester)
    => /\ resp'.result = "Ok"
       /\ files' = [f \in FileIds \ {resp'.target} |-> files[f]]

(* File ids are handed out in order and never reused: an id below         *)
(* nextFileId that has no record is the id of a deleted file.             *)
DeletedFileIds == (1..(nextFileId - 1)) \ FileIds

GoneStaysGone ==
    (resp.op \in {"fileInfo", "download"} /\ resp.target \in DeletedFileIds)
        => resp.result = "NotFound"

(* C16: File Delete by the owner always removes the File record, whether  *)
(* the storage delete succeeds or fails, and reports success; afterwards  *)
(* the file id resolves to NotFound for every requester.                  *)
C16_DeleteAlways == []GoneStaysGone /\ [][FileDeleteStep]_vars

C16_Witness ==
    /\ resp.op = "deleteFile"
    /\ resp.storage = "error"
    /\ resp.result = "Ok"
    /\ resp.target \in DeletedFileIds
    /\ objects # {}
(* A Delete that succeeds removes the one folder record it names and     *)
(* changes no file's folder.                                              *)
NoCascadeStep ==
    (resp'.op = "deleteFolder" /\ resp'.result = "Ok")
    => /\ folders' = [i \in FolderIds \ {resp'.target} |-> folders[i]]
       /\ \A f \in FileIds : /\ f \in DOMAIN files'
                             /\ files'[f].folderId = files[f].folderId

(* C17: Folder Delete never cascades, also when a child Create, an Upload *)
(* or a Reassign into the folder commits between Delete's emptiness check *)
(* and its removal of the record: a successful Delete of F removes F only *)
(* and changes no file's folder assignment.                               *)
C17_NoCascade == [][NoCascadeStep]_vars
(* ================== claims on share links and deletion ================ *)
(* Resolve and ResolveSubfolder change no folder, file or link record and *)
(* no stored object.                                                      *)
ReadOnlyStep ==
    resp'.op \in {"share", "shareFolder"} =>
        UNCHANGED <<folders, files, shares, objects>>

(* A link row stays as it is, expired or not, except when the folder it   *)
(* shares is deleted.                                                     *)
RowsPersistStep ==
    \A t \in DOMAIN shares :
        \/ t \in DOMAIN shares' /\ shares'[t] = shares[t]
        \/ /\ resp'.op = "deleteFolder"
           /\ resp'.result = "Ok"
           /\ resp'.target = shares[t].folderId

(* The tokens issued for folders that have since been deleted; folder ids *)
(* are never reused, so a folder a link was issued for and that has no    *)
(* record was deleted.                                                    *)
TokensOfDeleted == {t \in DOMAIN issued : issued[t].folderId \notin FolderIds}

(* Once Resolve(t) has answered Expired, every later Resolve(t) answers   *)
(* Expired unless the folder the link was issued for has been deleted.    *)
ExpiredStays ==
    \A t \in TokenSpace :
        []((resp.op = "share" /\ resp.target = t /\ resp.result = "Expired")
            => []((resp.op = "share" /\ resp.target = t)
                    => \/ resp.result = "Expired"
                       \/ t \in TokensOfDeleted))

(* C18: Share Resolve and ResolveSubfolder never modify the store, an     *)
(* expired link's row persists, and once Resolve(token) has yielded       *)
(* Expired every later Resolve(token) yields Expired for as long as the   *)
(* shared folder is not deleted.                                          *)
C18_ResolveReadOnly == [][ReadOnlyStep /\ RowsPersistStep]_vars /\ ExpiredStays

C18_Witness ==
    /\ resp.op = "share"
    /\ resp.result = "Expired"
    /\ resp.target \in DOMAIN shares
    /\ now > shares[resp.target].expiresAt
    /\ shares[resp.target].folderId \in FolderIds

(* C19: after a successful Delete of folder F every link issued for F is  *)
(* gone: Resolve and ResolveSubfolder with a token issued for F yield     *)
(* NotFound from then on, expired or not.                                 *)
C19_DeleteInvalidates ==
    /\ TokensOfDeleted \cap DOMAIN shares = {}
    /\ (resp.op \in {"share", "shareFolder"} /\ resp.target \in TokensOfDeleted)
          => resp.result = "NotFound"

C19_Witness ==
    /\ resp.op = "shareFolder"
    /\ resp.target \in TokensOfDeleted
    /\ resp.result = "NotFound"
    /\ now <= issued[resp.target].at + ExpectedMs(issued[resp.target].duration)
(* ========================= claims on breadcrumbs ====================== *)
(* Every folder's parent links end at a null parent. *)
Acyclic == \A f \in FolderIds : ReachesRootWithin(f, Cardinality(FolderIds))

(* C20: in an acyclic tree, for F inside the shared root A's subtree the  *)
(* breadcrumb of ResolveSubfolder is the chain of folders strictly below  *)
(* A down to and including F, from the child of A to F, each with its     *)
(* name; it is empty when F = A and holds neither A nor an ancestor of A. *)
C20_Breadcrumb ==
    (/\ resp.op = "shareFolder"
     /\ resp.result = "Ok"
     /\ LiveToken(resp.target)
     /\ Acyclic)
    => LET A == shares[resp.target].folderId
           F == resp.folder
           p == resp.path
       IN  /\ F = A <=> p = <<>>
           /\ F # A =>
                /\ p[Len(p)].id = F
                /\ folders[p[1].id].parentId = A
                /\ \A i \in 2..Len(p) : folders[p[i].id].parentId = p[i - 1].id
           /\ \A i \in 1..Len(p) :
                /\ p[i].id \in FolderIds
                /\ p[i].name = folders[p[i].id].name
                /\ p[i].id \notin UpClosure({A})

C20_Witness ==
    /\ resp.op = "shareFolder"
    /\ resp.result = "Ok"
    /\ LiveToken(resp.target)
    /\ Acyclic
    /\ Len(resp.path) >= 2
    /\ resp.path[1].id > resp.path[2].id
(* ===================== claims on duration strings ===================== *)
(* A string of one or more decimal digits followed by one of m, h, d.     *)
WellFormedDuration(d) ==
    /\ Len(d) >= 2
    /\ d[Len(d)] \in {"m", "h", "d"}
    /\ \A i \in 1..(Len(d) - 1) : d[i] \in Digits

(* The number a string of decimal digits denotes, read left to right. *)
RECURSIVE AmountOf(_, _)
AmountOf(digits, acc) ==
    IF digits = <<>> THEN acc
    ELSE AmountOf(Tail(digits), 10 * acc + DigitValue(Head(digits)))

ClaimedMs(d) ==
    AmountOf(SubSeq(d, 1, Len(d) - 1), 0) *
        (CASE d[Len(d)] = "m" -> 60000
           [] d[Len(d)] = "h" -> 3600000
           [] d[Len(d)] = "d" -> 86400000)

(* An Issue by the folder's owner: a well-formed duration creates one     *)
(* link that expires at the issue time plus the claimed milliseconds,     *)
(* every other string is InvalidFormat and creates no link.               *)
IssueStep ==
    (resp'.op = "issueShare" /\ resp'.result # "NotFound") =>
        LET d == resp'.duration
        IN  IF WellFormedDuration(d)
            THEN /\ parseDuration(d) = ClaimedMs(d)
                 /\ resp'.result = "Ok"
                 /\ DOMAIN shares' = DOMAIN shares \cup {resp'.target}
                 /\ resp'.target \notin DOMAIN shares
                 /\ shares'[resp'.target].expiresAt = now + ClaimedMs(d)
            ELSE /\ parseDuration(d) = InvalidDuration
                 /\ resp'.result = "InvalidFormat"
                 /\ shares' = shares

(* C21: duration parsing accepts exactly digits followed by one of m, h,  *)
(* d and returns amount x 60000, x 3600000 or x 86400000 milliseconds;    *)
(* every other string yields InvalidFormat and no link is created;        *)
(* expiresAt is the issue time plus the parsed duration.                  *)
C21_DurationGrammar == [][IssueStep]_vars

C21_Witness ==
    /\ resp.op = "issueShare"
    /\ resp.result = "Ok"
    /\ resp.duration = <<"0", "7", "d">>
    /\ now > 0
    /\ shares[resp.target].expiresAt = now + 604800000
(* ========================= claims on ownership ======================== *)
(* A Delete or Reassign of a file, or a Rename/Move (of a request that    *)
(* passed validateFolder) or Delete of a folder, by a user who does not   *)
(* own the target answers NotFound and changes no record and no object.   *)
NonOwnerStep ==
    /\ (/\ resp'.op \in {"deleteFile", "assignFolder"}
        /\ resp'.target \in FileIds
        /\ files[resp'.target].userId # resp'.requester)
       => /\ resp'.result = "NotFound"
          /\ UNCHANGED <<folders, files, shares, objects>>
    /\ (/\ resp'.op \in {"updateFolder", "deleteFolder"}
        /\ resp'.target \in FolderIds
        /\ folders[resp'.target].userId # resp'.requester
        /\ resp'.result # "ValidationError")
       => /\ resp'.result = "NotFound"
          /\ UNCHANGED <<folders, files, shares, objects>>

(* C22: only the owner mutates: File Delete, File Reassign, Folder        *)
(* Rename/Move and Folder Delete by a user who is not the owner of the    *)
(* target yield NotFound and leave every record and every storage object  *)
(* unchanged, also when the target file is public.                        *)
C22_OwnerOnly == [][NonOwnerStep]_vars

C22_Witness ==
    /\ resp.op = "deleteFile"
    /\ resp.result = "NotFound"
    /\ resp.target \in FileIds
    /\ files[resp.target].isPublic
    /\ files[resp.target].userId # resp.requester
    /\ files[resp.target].storagePath \in objects

(* C23: for every File record, after any sequence of Upload and Reassign, *)
(* the first segment of the storage path is the file's owner, and the     *)
(* second part is root exactly when the file's folder is null and         *)
(* folders/<id> with the file's current folder otherwise.                 *)
C23_PathReveals ==
    \A f \in FileIds :
        LET path == files[f].storagePath
        IN  /\ path.owner = files[f].userId
            /\ path.kind = "root" <=> files[f].folderId = NULL
            /\ path.kind = "folders" => path.folder = files[f].folderId
(* ===================== claims on reading files ======================== *)
(* The files requester r may see: the store without the other users'      *)
(* private files.                                                         *)
VisibleView(r) ==
    [f \in {g \in FileIds : files[g].userId = r \/ files[g].isPublic} |-> files[f]]

(* The answer to a request for an id that no record carries. *)
NotFoundReply(op, r, id) ==
    CASE op = "preview" ->
             [op |-> op, result |-> "NotFound", requester |-> r, target |-> id,
              ttl |-> NULL, sign |-> "none", backend |-> "none"]
      [] op = "download" ->
             [op |-> op, result |-> "NotFound", requester |-> r, target |-> id,
              backend |-> "none"]
      [] OTHER ->
             [op |-> op, result |-> "NotFound", requester |-> r, target |-> id]

(* C24: unauthorized access is indistinguishable from non-existence: for  *)
(* info, download and preview the answer depends only on the files the    *)
(* requester may see, and the answer for another user's private file is   *)
(* the very answer given for an id that does not exist.                   *)
C24_Indistinguishable ==
    resp.op \in {"fileInfo", "download", "preview"} =>
        /\ resp.result = "NotFound"
              <=> resp.target \notin DOMAIN VisibleView(resp.requester)
        /\ resp.target \notin DOMAIN VisibleView(resp.requester)
              => resp = NotFoundReply(resp.op, resp.requester, resp.target)

C24_Witness ==
    /\ resp.op = "preview"
    /\ resp.result = "NotFound"
    /\ resp.target \in FileIds
    /\ ~files[resp.target].isPublic
    /\ files[resp.target].userId # resp.requester

(* A record exists only with its object in the bucket (no file delete     *)
(* runs here).                                                            *)
RecordsHaveObjects == \A f \in FileIds : files[f].storagePath \in objects

(* An Upload writes a record only after its put succeeded; when the put   *)
(* succeeded and the insert failed it reports the failure, writes no      *)
(* record and leaves the object in the bucket.                            *)
UploadOrderStep ==
    resp'.op = "upload" =>
        /\ resp'.result = "Ok" =>
              /\ resp'.put = "stored"
              /\ files'[resp'.target].storagePath \in objects'
        /\ (resp'.put = "stored" /\ resp'.result # "Ok") =>
              /\ resp'.result = "Error"
              /\ files' = files
              /\ objects \subseteq objects'
              /\ \E o \in objects' : o.owner = resp'.requester /\ o.stamp = now

(* C25: in Upload the storage write precedes the metadata write: every    *)
(* File record has a path whose object was put; when the put succeeds and *)
(* the metadata write fails, the operation reports failure, no record     *)
(* exists for the upload, and the stored object remains.                  *)
C25_PutBeforeRecord == []RecordsHaveObjects /\ [][UploadOrderStep]_vars

C25_Witness ==
    /\ resp.op = "upload"
    /\ resp.put = "stored"
    /\ resp.result = "Error"
    /\ FileIds = {}
    /\ objects # {}

(* A backend error on get or on signUrl is answered as a failure and      *)
(* changes no record; preview looks the file up as Resolve does and asks  *)
(* for a URL that lives 3600 seconds.                                     *)
BackendErrorStep ==
    /\ resp'.op = "preview" =>
          /\ files' = files
          /\ IF resp'.target \in DOMAIN VisibleView(resp'.requester)
             THEN /\ resp'.ttl = 3600
                  /\ resp'.sign = "error" => resp'.result = "StorageFailure"
                  /\ resp'.sign = "signed" => resp'.result = "Url"
             ELSE /\ resp'.result = "NotFound"
                  /\ resp'.sign = "none"
    /\ (resp'.op = "download" /\ resp'.target \in DOMAIN VisibleView(resp'.requester)) =>
          (Download(resp'.requester, resp'.target, FALSE)
              => (resp'.result = "StorageFailure" /\ files' = files))

(* C26: a storage backend error on get during download, or on signUrl     *)
(* during PreviewUrl, is reported as a failure of that request (never     *)
(* success, never NotFound) and leaves the File record unchanged;         *)
(* PreviewUrl applies the visibility rule of Resolve before it requests a *)
(* signed URL with a TTL of 3600 seconds.                                 *)
C26_BackendErrors == [][BackendErrorStep]_vars

C26_Witness ==
    /\ resp.op = "preview"
    /\ resp.sign = "error"
    /\ resp.result = "StorageFailure"
    /\ resp.target \in FileIds
    /\ files[resp.target].userId # resp.requester

(* ================= claims on the two storage backends ================= *)
(* A step of download, delete or preview asks the backend named by the    *)
(* record it found and leaves the other one alone.                        *)
BackendStep ==
    resp'.op \in {"download", "deleteFile", "preview"} =>
        LET found == IF resp'.op = "deleteFile"
                     THEN FindOwnedFile(resp'.target, resp'.requester)
                     ELSE FindVisibleFile(resp'.target, resp'.requester)
        IN  IF found = NULL
            THEN /\ resp'.backend = "none"
                 /\ UNCHANGED <<files, objects, disk>>
            ELSE /\ IF files[found].storagePath # NoPath
                    THEN /\ resp'.backend = "bucket"
                         /\ disk' = disk
                         /\ objects' \subseteq objects
                         /\ objects \ objects' \subseteq {files[found].storagePath}
                    ELSE /\ resp'.backend = "local"
                         /\ objects' = objects
                         /\ disk' \subseteq disk
                         /\ disk \ disk' \subseteq {files[found].path}
                 /\ IF resp'.op = "deleteFile"
                    THEN found \notin DOMAIN files'
                    ELSE files' = files

TurnResults == {"Skipped", "UploadFailed", "Error", "Migrated"}

(* What one step of the script may do to the store and the bucket. *)
MigrationStep ==
    resp'.op = "migrate" =>
        /\ DOMAIN files' = DOMAIN files
        /\ resp'.result = "Found" =>
              /\ files' = files
              /\ objects' = objects
              /\ resp'.found =
                   Cardinality({f \in FileIds : files[f].storagePath = NoPath})
              /\ \A q \in MigrationRuns(reqs') :
                    DOMAIN q.todo = {f \in FileIds : files[f].storagePath = NoPath}
        /\ resp'.result = "Done" =>
              /\ files' = files
              /\ objects' = objects
              /\ resp'.updates <= resp'.puts
              /\ resp'.puts <= resp'.found
        /\ resp'.result \in TurnResults =>
              LET f == resp'.target
              IN  /\ resp'.found > 0
                  /\ \A g \in FileIds \ {f} : files'[g] = files[g]
                  /\ objects' # objects => resp'.put = "stored"
                  /\ f \in FileIds =>
                        /\ files[f].storagePath = NoPath
                        /\ files'[f] = [files[f] EXCEPT
                                          !.storagePath = files'[f].storagePath]
                        /\ files'[f].storagePath # NoPath =>
                              /\ resp'.put = "stored"
                              /\ files'[f].storagePath \in objects'
                        /\ (files[f].path \notin disk \/ resp'.put = "error") =>
                              files'[f].storagePath = NoPath
                  /\ \A q \in MigrationRuns(reqs) :
                        \E r \in MigrationRuns(reqs') :
                            DOMAIN r.todo = DOMAIN q.todo \ {f}

(* C30: the migration touches only the records without a storage path;    *)
(* it sets the storage path only after the upload succeeded; a record     *)
(* whose local file is missing or whose upload fails keeps it unset and   *)
(* the loop goes on; no record is created or deleted and no other field   *)
(* changes; a run that finds no record without a storage path uploads     *)
(* and updates nothing.                                                   *)
C30_Migration == [][MigrationStep]_vars

(* A run that found two records passed over the first, for a missing     *)
(* local file or a failed upload, went on and migrated the second.        *)
C30_Witness ==
    /\ resp.op = "migrate"
    /\ resp.result = "Migrated"
    /\ resp.found = 2
    /\ MigrationRuns(reqs) # {}
    /\ \A q \in MigrationRuns(reqs) : q.todo = <<>> /\ q.puts = 1
    /\ \E g \in FileIds : files[g].storagePath = NoPath

(* ================ claims on the walk under folder moves =============== *)
(* C27: a subfolder request is granted for folder F under the shared      *)
(* root A only if F was inside A's subtree at some moment during the      *)
(* request, also when the owner's moves fall between the reads of the     *)
(* walk; the files and children of a folder that stayed outside the       *)
(* subtree are never returned.                                            *)
C27_WalkSound ==
    (resp.op = "shareWalk" /\ resp.result = "Ok") => resp.inside

(* ================== claims on repeating an update ===================== *)
(* An update by the owner to the name and parent the folder has is        *)
(* answered Ok and writes the row it found; an update applied again to    *)
(* the table it left leaves that table.                                   *)
RepeatStep ==
    resp'.op = "updateFolder" =>
        \A u \in Users, t \in FolderIdSpace :
            (u = resp'.requester /\ t = resp'.target) =>
                \A raw \in ShareNames, pid \in FileFolderArgs :
                    UpdateFolder(u, t, raw, pid) =>
                        /\ (UpdateOutcome(u, t, raw, pid))'
                              = [result |-> resp'.result, folders |-> folders']
                        /\ (/\ t \in FolderIds
                            /\ folders[t].userId = u
                            /\ folders[t].parentId = pid
                            /\ folders[t].name = Trim(SanitizeName(raw)))
                           => /\ resp'.result = "Ok"
                              /\ resp'.wrote = "same"
                              /\ folders' = folders

(* C29: a folder does not conflict with itself: a Rename/Move by the      *)
(* owner to the folder's own current name and parent succeeds and leaves  *)
(* the tree unchanged, and the same Rename/Move applied twice gives the   *)
(* store that applying it once gives.                                     *)
C29_SelfUpdate == [][RepeatStep]_vars

(* The owner's update was accepted and wrote the row as it was. *)
C29_Witness ==
    /\ resp.op = "updateFolder"
    /\ resp.result = "Ok"
    /\ resp.wrote = "same"
    /\ resp.target \in FolderIds
    /\ folders[resp.target].userId = resp.requester

====
